---- MODULE Spec2Model ----
(***************************************************************************)
(* Model of the gentoo-install planning core:                              *)
(*   - scripts/config.py : DiskConfigurator, the identifier registry and   *)
(*     the action plan builder;                                            *)
(*   - scripts/utils.py  : load_or_generate_uuid, the persisted UUID store,*)
(*     and resolve_device_by_id, the device resolver.                      *)
(*                                                                         *)
(* Python strings that the code inspects character by character            *)
(* (identifiers, partition types, ';'-separated lists, UUID texts) are     *)
(* sequences of one-character strings.  Strings the code only compares or  *)
(* copies (device paths, sizes, file system names) are TLA+ strings, with  *)
(* "" standing for both None and the empty string where the code tests     *)
(* truthiness only.                                                        *)
(***************************************************************************)
EXTENDS Integers, Sequences, FiniteSets, TLC

VARIABLES
    config,         \* the DiskConfigurator instance (config.py:60-95)
    last,           \* the most recent top-level call: operation, arguments, outcome
    trace,          \* the primitive calls made by the most recent top-level call
    remainingDone,  \* history: tables on which a size=remaining create_partition succeeded
    ncalls,         \* number of top-level builder calls made so far
    uuidDir,        \* whether UUID_STORAGE_DIR exists
    store,          \* UUID_STORAGE_DIR: file name -> file content
    proc,           \* the running process's position inside load_or_generate_uuid
    returned,       \* history: per key, the values load_or_generate_uuid has returned
    rewritten,      \* history: keys whose file was opened for writing after a return
    interrupted,    \* history: keys for which a call was interrupted part-way
    DISK_ID_TO_RESOLVABLE,  \* the resolve table read by the resolver (utils.py:13)
    CACHED_LSBLK_OUTPUT,    \* the cached lsblk output (utils.py:16)
    system,         \* the machine the resolver probes: symlinks, utilities' outputs
    rlast,          \* the most recent resolver call: arguments and outcome
    resolved,       \* history: per Identifier, the paths resolve_device_by_id returned
    lsblkRuns,      \* history: number of times lsblk was executed
    nresolves,      \* number of resolver calls made so far
    mdUuid,         \* the UUID text given to the three uuid_to_mduuid functions
    mdOut,          \* what each of the three returned for it
    tryPc,          \* the position of the process inside try_command
    tryLog          \* history: the events of the try_command call, in order

vars == << config, last, trace, remainingDone, ncalls,
           uuidDir, store, proc, returned, rewritten, interrupted,
           DISK_ID_TO_RESOLVABLE, CACHED_LSBLK_OUTPUT, system, rlast, resolved,
           lsblkRuns, nresolves, mdUuid, mdOut, tryPc, tryLog >>

builderVars == << config, last, trace, remainingDone, ncalls >>
storeVars == << uuidDir, store, proc, returned, rewritten, interrupted >>
resolverVars == << DISK_ID_TO_RESOLVABLE, CACHED_LSBLK_OUTPUT, system, rlast,
                   resolved, lsblkRuns, nresolves >>
mdVars == << mdUuid, mdOut >>
tryVars == << tryPc, tryLog >>

-----------------------------------------------------------------------------
(* Bounds of the model.                                                    *)

\* Top-level builder calls explored per behaviour.
MaxCalls == 3

\* Completed load_or_generate_uuid calls explored per key.
MaxLoads == 3

\* Resolver calls explored per behaviour.
MaxResolves == 3

\* Events of a try_command call explored per behaviour.
MaxTrySteps == 5

-----------------------------------------------------------------------------
(* Strings as character sequences.                                         *)

gpt == << "g", "p", "t" >>
part_ == << "p", "a", "r", "t", "_" >>
efi == << "e", "f", "i" >>
bios == << "b", "i", "o", "s" >>
swap == << "s", "w", "a", "p" >>
raid == << "r", "a", "i", "d" >>
luks == << "l", "u", "k", "s" >>
linux == << "l", "i", "n", "u", "x" >>
root == << "r", "o", "o", "t" >>
part_swap == part_ \o swap
part_root == part_ \o root
part_luks_root == part_ \o luks \o << "_" >> \o root

\* The value of an Optional attribute that was never assigned.
None == << "None" >>

\* A dict with no keys.
EmptyDict == [k \in {} |-> TRUE]

\* Faulty variant of Put: the dict is replaced by one holding the new key only.
Put_alone(d, k, v) == [x \in {k} |-> v]

\* d[k] = v on a Python dict.
Put(d, k, v) == [x \in (DOMAIN d) \cup {k} |-> IF x = k THEN v ELSE d[x]]

Range(s) == { s[i] : i \in DOMAIN s }

\* str.hex() of the UTF-8 encoding, for the ASCII characters the model uses.
HexOf(c) ==
    CASE c = "a" -> << "6", "1" >>
      [] c = "b" -> << "6", "2" >>
      [] c = "d" -> << "6", "4" >>
      [] c = "e" -> << "6", "5" >>
      [] c = "f" -> << "6", "6" >>
      [] c = "g" -> << "6", "7" >>
      [] c = "i" -> << "6", "9" >>
      [] c = "k" -> << "6", "b" >>
      [] c = "l" -> << "6", "c" >>
      [] c = "n" -> << "6", "e" >>
      [] c = "o" -> << "6", "f" >>
      [] c = "p" -> << "7", "0" >>
      [] c = "r" -> << "7", "2" >>
      [] c = "s" -> << "7", "3" >>
      [] c = "t" -> << "7", "4" >>
      [] c = "u" -> << "7", "5" >>
      [] c = "w" -> << "7", "7" >>
      [] c = "x" -> << "7", "8" >>
      [] c = "_" -> << "5", "f" >>
      [] c = ";" -> << "3", "b" >>
      [] c = " " -> << "2", "0" >>

RECURSIVE Hex(_)
Hex(s) == IF s = << >> THEN << >> ELSE HexOf(Head(s)) \o Hex(Tail(s))

\* s[:n]
Take(s, n) == SubSeq(s, 1, IF Len(s) < n THEN Len(s) ELSE n)

\* Characters str.strip() removes.
Whitespace == { " ", "\n", "\t" }

RECURSIVE LStrip(_)
LStrip(s) ==
    IF s # << >> /\ Head(s) \in Whitespace THEN LStrip(Tail(s)) ELSE s

RECURSIVE RStrip(_)
RStrip(s) ==
    IF s # << >> /\ s[Len(s)] \in Whitespace
    THEN RStrip(SubSeq(s, 1, Len(s) - 1))
    ELSE s

\* str.strip()
Strip(s) == RStrip(LStrip(s))

\* str.split(';'): always at least one piece, empty pieces kept.
RECURSIVE SplitSemi(_, _)
SplitSemi(s, cur) ==
    IF s = << >> THEN << cur >>
    ELSE IF Head(s) = ";" THEN << cur >> \o SplitSemi(Tail(s), << >>)
    ELSE SplitSemi(Tail(s), Append(cur, Head(s)))

RECURSIVE NonBlankStripped(_)
NonBlankStripped(pieces) ==
    IF pieces = << >> THEN << >>
    ELSE IF Strip(Head(pieces)) # << >>
         THEN << Strip(Head(pieces)) >> \o NonBlankStripped(Tail(pieces))
         ELSE NonBlankStripped(Tail(pieces))

-----------------------------------------------------------------------------
(* scripts/config.py: the DiskConfigurator.                                *)

NoError == "ok"

\* The fixed enum of create_partition's type argument (config.py:183).
PartitionTypes == { bios, efi, swap, raid, luks, linux }

\* DiskConfigurator.__init__ (config.py:60-95).
InitConfig ==
    [ USED_LUKS |-> FALSE,
      USED_ENCRYPTION |-> FALSE,
      DISK_ACTIONS |-> << >>,
      DISK_DRACUT_CMDLINE |-> << >>,
      DISK_ID_TO_RESOLVABLE |-> EmptyDict,
      DISK_ID_PART_TO_GPT_ID |-> EmptyDict,
      DISK_ID_TO_UUID |-> EmptyDict,
      DISK_GPT_HAD_SIZE_REMAINING |-> EmptyDict,
      DISK_ID_EFI |-> None,
      DISK_ID_BIOS |-> None,
      DISK_ID_SWAP |-> None,
      DISK_ID_ROOT |-> None,
      DISK_ID_ROOT_TYPE |-> "None",
      DISK_ID_ROOT_MOUNT_OPTS |-> "None" ]

\* A run of builder code: the instance, the pending exception (NoError when
\* none), the primitive calls logged so far, and the remainingDone history.
\* die_trace (config.py:10-14) raises SystemExit: the statements after it in
\* the call chain do not run, and the instance keeps whatever was assigned
\* before (the handler at config.py:277 still holds it).
Run(c, done) == [ cfg |-> c, err |-> NoError, trace |-> << >>, done |-> done ]

Ok(r) == r.err = NoError

die_trace(r, e) == IF Ok(r) THEN [r EXCEPT !.err = e] ELSE r

\* The module-level stub DiskConfigurator calls (config.py:16-20):
\* f"STUB-UUID-{base64_id[:4]}".
config_load_or_generate_uuid(base64_id) == << "STUB-UUID-" >> \o Take(base64_id, 4)

\* create_resolve_entry and create_resolve_entry_device (config.py:26-33)
\* only print: the instance is returned as it was.
create_resolve_entry(r, new_id, resolve_type, resolve_value) == r

\* only_one_of(arguments, 'device', 'id') (config.py:99-103), with the
\* arguments dict of create_gpt: a key is present iff its value is truthy.
only_one_of(r, device, id_val) ==
    IF Cardinality({ k \in { "device", "id" } :
                       \/ k = "device" /\ device # ""
                       \/ k = "id" /\ id_val # << >> }) > 1
    THEN die_trace(r, "OnlyOneOf")
    ELSE r

\* Faulty variant of IdAlreadyExists: the duplicate check is dropped.
IdAlreadyExists_never(cfg, id_val) == FALSE

\* The duplicate check of create_new_id (config.py:113).
IdAlreadyExists(cfg, id_val) == id_val \in DOMAIN cfg.DISK_ID_TO_UUID

\* create_new_id (config.py:105-118).
create_new_id(r, id_val) ==
    IF ~Ok(r) THEN r
    ELSE IF id_val = << >> THEN die_trace(r, "IdRequired")
    ELSE IF ";" \in Range(id_val) THEN die_trace(r, "IdInvalidChar")
    ELSE IF IdAlreadyExists(r.cfg, id_val) THEN die_trace(r, "IdExists")
    ELSE [r EXCEPT !.cfg.DISK_ID_TO_UUID =
              Put(@, id_val, config_load_or_generate_uuid(Hex(id_val)))]

\* verify_existing_id (config.py:120-124).
verify_existing_id(r, id_val) ==
    IF ~Ok(r) THEN r
    ELSE IF id_val \notin DOMAIN r.cfg.DISK_ID_TO_UUID
    THEN die_trace(r, "IdNotFound")
    ELSE r

\* Faulty variant of verify_option: every value is accepted.
verify_option_any(r, arg_val, valid_options) == r

\* verify_option (config.py:126-130).
verify_option(r, arg_val, valid_options) ==
    IF ~Ok(r) THEN r
    ELSE IF arg_val \notin valid_options THEN die_trace(r, "InvalidOption")
    ELSE r

\* Faulty variant of verify_existing_unique_ids: the entries are not trimmed and
\* repeats are not looked for.
verify_existing_unique_ids_untrimmed(r, ids_str) ==
    LET ids == SplitSemi(ids_str, << >>)
    IN  IF ~Ok(r) THEN r
        ELSE IF \A i \in DOMAIN ids : Strip(ids[i]) = << >>
        THEN die_trace(r, "EmptyArgument")
        ELSE IF \E i \in DOMAIN ids :
                   ids[i] # << >> /\ ids[i] \notin DOMAIN r.cfg.DISK_ID_TO_UUID
        THEN die_trace(r, "UnknownInSet")
        ELSE r

\* verify_existing_unique_ids (config.py:132-145) on the argument text ids_str.
verify_existing_unique_ids(r, ids_str) ==
    LET ids == NonBlankStripped(SplitSemi(ids_str, << >>))
    IN  IF ~Ok(r) THEN r
        ELSE IF ids = << >> THEN die_trace(r, "EmptyArgument")
        ELSE IF Len(ids) # Cardinality(Range(ids)) THEN die_trace(r, "DuplicateInSet")
        ELSE IF \E i \in DOMAIN ids : ids[i] \notin DOMAIN r.cfg.DISK_ID_TO_UUID
        THEN die_trace(r, "UnknownInSet")
        ELSE r

\* Appends to the log of primitive calls what a call did: r0 is the run
\* before the call, r1 the run after it.
Logged(r0, r1, op, args) ==
    [r1 EXCEPT !.trace = Append(@,
        [ op |-> op, args |-> args, pre |-> r0.cfg, post |-> r1.cfg,
          err |-> r1.err, done |-> r0.done ])]

\* Faulty variant of AppendAction: the new action is put in front of the plan.
AppendAction_front(r, a) ==
    IF Ok(r) THEN [r EXCEPT !.cfg.DISK_ACTIONS = << a >> \o @] ELSE r

\* self.DISK_ACTIONS.append(...)
AppendAction(r, a) ==
    IF Ok(r) THEN [r EXCEPT !.cfg.DISK_ACTIONS = Append(@, a)] ELSE r

\* register_existing (config.py:150-156).
register_existing(r, new_id, device) ==
    IF ~Ok(r) THEN r
    ELSE LET r1 == create_new_id(r, new_id)
             r2 == create_resolve_entry(r1, new_id, "device", device)
             r3 == AppendAction(r2,
                     [ action |-> "existing", new_id |-> new_id, device |-> device ])
         IN  Logged(r, r3, "register_existing",
                    [ new_id |-> new_id, device |-> device ])

\* The action text create_gpt assembles (config.py:172-175): device= and id=
\* appear only when given.
GptAction(new_id, device, id_val) ==
    IF device # ""
    THEN [ action |-> "create_gpt", new_id |-> new_id, device |-> device ]
    ELSE IF id_val # << >>
    THEN [ action |-> "create_gpt", new_id |-> new_id, id |-> id_val ]
    ELSE [ action |-> "create_gpt", new_id |-> new_id ]

\* create_gpt (config.py:158-175).
create_gpt(r, new_id, device, id_val) ==
    IF ~Ok(r) THEN r
    ELSE LET r1 == only_one_of(r, device, id_val)
             r2 == create_new_id(r1, new_id)
             r3 == IF id_val # << >> THEN verify_existing_id(r2, id_val) ELSE r2
             r4 == IF Ok(r3)
                   THEN create_resolve_entry(r3, new_id, "ptuuid",
                                             r3.cfg.DISK_ID_TO_UUID[new_id])
                   ELSE r3
             r5 == AppendAction(r4, GptAction(new_id, device, id_val))
         IN  Logged(r, r5, "create_gpt",
                    [ new_id |-> new_id, device |-> device, id |-> id_val ])

\* Faulty variant of HadSizeRemaining: the flag is never consulted.
HadSizeRemaining_never(cfg, id_val) == FALSE

\* self.DISK_GPT_HAD_SIZE_REMAINING.get(id_val) (config.py:185).
HadSizeRemaining(cfg, id_val) ==
    /\ id_val \in DOMAIN cfg.DISK_GPT_HAD_SIZE_REMAINING
    /\ cfg.DISK_GPT_HAD_SIZE_REMAINING[id_val]

\* Faulty variant of MarkSizeRemaining: the flag is never set.
MarkSizeRemaining_never(cfg, id_val, size) == cfg

\* if size == "remaining": self.DISK_GPT_HAD_SIZE_REMAINING[id_val] = True
\* (config.py:188-189).
MarkSizeRemaining(cfg, id_val, size) ==
    IF size = "remaining"
    THEN [cfg EXCEPT !.DISK_GPT_HAD_SIZE_REMAINING = Put(@, id_val, TRUE)]
    ELSE cfg

\* create_partition (config.py:177-195).
create_partition(r, new_id, id_val, size, type) ==
    IF ~Ok(r) THEN r
    ELSE LET r1 == create_new_id(r, new_id)
             r2 == verify_existing_id(r1, id_val)
             r3 == verify_option(r2, type, PartitionTypes)
             r4 == IF Ok(r3) /\ HadSizeRemaining(r3.cfg, id_val)
                   THEN die_trace(r3, "TableFull")
                   ELSE r3
             r5 == IF Ok(r4)
                   THEN [r4 EXCEPT
                           !.cfg = [MarkSizeRemaining(r4.cfg, id_val, size) EXCEPT
                                      !.DISK_ID_PART_TO_GPT_ID = Put(@, new_id, id_val)],
                           !.done = IF size = "remaining" THEN @ \cup {id_val} ELSE @]
                   ELSE r4
             r6 == IF Ok(r5)
                   THEN create_resolve_entry(r5, new_id, "partuuid",
                                             r5.cfg.DISK_ID_TO_UUID[new_id])
                   ELSE r5
             r7 == AppendAction(r6,
                     [ action |-> "create_partition", new_id |-> new_id,
                       id |-> id_val, size |-> size, type |-> type ])
         IN  Logged(r, r7, "create_partition",
                    [ new_id |-> new_id, id |-> id_val, size |-> size, type |-> type ])

\* The direct appends and assignments of create_classic_single_disk_layout after
\* its primitive calls (config.py:211-243), run on a live r.
LayoutTail(r, swap_arg, type, luks_arg, root_fs) ==
    LET use_luks == luks_arg = "true"
        boot_id == part_ \o type
        \* config.py:213-216
        r1 == IF use_luks
              THEN AppendAction(
                     [r EXCEPT !.cfg.USED_LUKS = TRUE, !.cfg.USED_ENCRYPTION = TRUE],
                     [ action |-> "create_luks", new_id |-> part_luks_root,
                       name |-> root, id |-> part_root ])
              ELSE r
        \* config.py:217: self.DISK_ID_TO_UUID['part_luks_root'] raises KeyError
        \* when the key is absent.
        r2 == IF ~use_luks THEN r1
              ELSE IF part_luks_root \notin DOMAIN r1.cfg.DISK_ID_TO_UUID
              THEN [r1 EXCEPT !.err = "KeyError"]
              ELSE [r1 EXCEPT !.cfg.DISK_DRACUT_CMDLINE =
                      Append(@, << "rd.luks.uuid=" >>
                                  \o r1.cfg.DISK_ID_TO_UUID[part_luks_root])]
        root_id == IF use_luks THEN part_luks_root ELSE part_root
        \* config.py:221-224
        r3 == AppendAction(r2,
                [ action |-> "format", id |-> boot_id, type |-> type, label |-> type ])
        r4 == IF swap_arg # "false"
              THEN AppendAction(r3,
                     [ action |-> "format", id |-> part_swap, type |-> swap,
                       label |-> swap ])
              ELSE r3
        r5 == AppendAction(r4,
                [ action |-> "format", id |-> root_id, type |-> root_fs,
                  label |-> root ])
        \* config.py:227-241
        opts == IF root_fs = "btrfs"
                THEN "defaults,noatime,compress-force=zstd,subvol=/root"
                ELSE IF root_fs = "ext4"
                THEN "defaults,noatime,errors=remount-ro,discard"
                ELSE r5.cfg.DISK_ID_ROOT_MOUNT_OPTS
        r6 == IF Ok(r5)
              THEN [r5 EXCEPT
                      !.cfg.DISK_ID_EFI = IF type = efi THEN boot_id ELSE @,
                      !.cfg.DISK_ID_BIOS = IF type = efi THEN @ ELSE boot_id,
                      !.cfg.DISK_ID_SWAP = IF swap_arg # "false" THEN part_swap ELSE @,
                      !.cfg.DISK_ID_ROOT = root_id,
                      !.cfg.DISK_ID_ROOT_TYPE = root_fs,
                      !.cfg.DISK_ID_ROOT_MOUNT_OPTS = opts]
              ELSE r5
    IN  \* config.py:242-243
        IF Ok(r6) /\ root_fs \notin { "btrfs", "ext4" }
        THEN die_trace(r6, "UnsupportedRootFs")
        ELSE r6

\* create_classic_single_disk_layout (config.py:200-243).
create_classic_single_disk_layout(r, device, swap_arg, type, luks_arg, root_fs) ==
    LET r1 == create_gpt(r, gpt, device, << >>)
        r2 == create_partition(r1, part_ \o type, gpt, "1GiB", type)
        r3 == IF swap_arg # "false"
              THEN create_partition(r2, part_swap, gpt, swap_arg, swap)
              ELSE r2
        r4 == create_partition(r3, part_root, gpt, "remaining", linux)
    IN  IF Ok(r4) THEN LayoutTail(r4, swap_arg, type, luks_arg, root_fs) ELSE r4

-----------------------------------------------------------------------------
(* The arguments the builder is called with.                               *)

NewIdArgs == { << >>, << "d", ";" >>, gpt, part_root, part_luks_root }
RefIdArgs == { << >>, gpt, part_root }
DeviceArgs == { "", "/dev/sda" }
SizeArgs == { "1GiB", "remaining" }
TypeArgs == { linux, << "x" >> }
SwapArgs == { "false", "8GiB", "remaining" }
BootTypeArgs == { efi, bios, swap }
LuksArgs == { "true", "false" }
RootFsArgs == { "ext4", "btrfs", "xfs" }
IdListArgs ==
    { << >>,
      << " ", ";", " " >>,
      gpt \o << ";" >> \o gpt \o << ";" >> \o part_root,
      gpt \o << ";", " " >> \o part_root,
      << " " >> \o gpt \o << " ", ";" >> }

-----------------------------------------------------------------------------
(* Top-level calls on the DiskConfigurator.                                *)

\* The state after a top-level call that ran as r.
Finish(r, op, args) ==
    /\ config' = r.cfg
    /\ last' = [ op |-> op, args |-> args, pre |-> config, err |-> r.err ]
    /\ trace' = r.trace
    /\ remainingDone' = r.done
    /\ ncalls' = ncalls + 1
    /\ UNCHANGED << storeVars, resolverVars, mdVars, tryVars >>

Start == Run(config, remainingDone)

\* The process is still running: no earlier call ended it through die_trace's
\* sys.exit (config.py:14) or an uncaught exception.
Running == last.err = NoError /\ ncalls < MaxCalls

Call_register_existing ==
    /\ Running
    /\ \E new_id \in NewIdArgs :
         Finish(register_existing(Start, new_id, "/dev/sda"), "register_existing",
                [ new_id |-> new_id, device |-> "/dev/sda" ])

Call_create_gpt ==
    /\ Running
    /\ \E new_id \in NewIdArgs, device \in DeviceArgs, id_val \in RefIdArgs :
         Finish(create_gpt(Start, new_id, device, id_val), "create_gpt",
                [ new_id |-> new_id, device |-> device, id |-> id_val ])

Call_create_partition ==
    /\ Running
    /\ \E new_id \in NewIdArgs, id_val \in RefIdArgs,
          size \in SizeArgs, type \in TypeArgs :
         Finish(create_partition(Start, new_id, id_val, size, type), "create_partition",
                [ new_id |-> new_id, id |-> id_val, size |-> size, type |-> type ])

Call_create_classic_single_disk_layout ==
    /\ Running
    /\ \E swap_arg \in SwapArgs, type \in BootTypeArgs,
          luks_arg \in LuksArgs, root_fs \in RootFsArgs :
         Finish(create_classic_single_disk_layout(Start, "/dev/sda", swap_arg, type,
                                                  luks_arg, root_fs),
                "create_classic_single_disk_layout",
                [ device |-> "/dev/sda", swap |-> swap_arg, type |-> type,
                  luks |-> luks_arg, root_fs |-> root_fs ])

Call_verify_existing_unique_ids ==
    /\ Running
    /\ \E ids_str \in IdListArgs :
         Finish(verify_existing_unique_ids(Start, ids_str),
                "verify_existing_unique_ids", [ ids |-> ids_str ])

-----------------------------------------------------------------------------
(* scripts/utils.py: the persisted UUID store.                             *)
(* One process runs at a time (the installer is single-threaded); an       *)
(* interrupted process is followed by a fresh one, which shares nothing    *)
(* with it but the files.                                                  *)

\* File names under UUID_STORAGE_DIR: the hex-encoded identifiers gpt and part_root.
Keys == { "677074", "706172745f726f6f74" }

\* What uuidgen -r can print, before its trailing newline.
UuidTexts == { << "uuid-A" >>, << "uuid-B" >> }

Idle == [ pc |-> "idle" ]

\* Faulty variant of FileExists: the stored file is never found.
FileExists_never(files, key) == FALSE

\* os.path.exists(uuid_file) (utils.py:374).
FileExists(files, key) == key \in DOMAIN files

\* The process calls load_or_generate_uuid(key): utils.py:372-374.
LoadCall(key) ==
    /\ proc.pc = "idle"
    /\ Len(returned[key]) < MaxLoads
    /\ proc' = [ pc |-> IF FileExists(store, key) THEN "read" ELSE "uuidgen",
                 key |-> key, uuid |-> << >> ]
    /\ UNCHANGED << uuidDir, store, returned, rewritten, interrupted >>
    /\ UNCHANGED << builderVars, resolverVars, mdVars, tryVars >>

\* return f.read().strip() (utils.py:376-377).
LoadRead ==
    /\ proc.pc = "read"
    /\ returned' = [returned EXCEPT ![proc.key] = Append(@, Strip(store[proc.key]))]
    /\ proc' = Idle
    /\ UNCHANGED << uuidDir, store, rewritten, interrupted >>
    /\ UNCHANGED << builderVars, resolverVars, mdVars, tryVars >>

\* uuid = subprocess.run(["uuidgen", "-r"]).stdout.strip() (utils.py:383-384).
LoadUuidgen ==
    /\ proc.pc = "uuidgen"
    /\ \E u \in UuidTexts :
         proc' = [proc EXCEPT !.pc = "makedirs", !.uuid = Strip(u \o << "\n" >>)]
    /\ UNCHANGED << uuidDir, store, returned, rewritten, interrupted >>
    /\ UNCHANGED << builderVars, resolverVars, mdVars, tryVars >>

\* uuidgen fails or is missing: die ends the process (utils.py:391-394).
LoadUuidgenDies ==
    /\ proc.pc = "uuidgen"
    /\ proc' = Idle
    /\ UNCHANGED << uuidDir, store, returned, rewritten, interrupted >>
    /\ UNCHANGED << builderVars, resolverVars, mdVars, tryVars >>

\* Reading, opening or writing the file raises IOError: die ends the process
\* and the file stays as it is (utils.py:378-379, 395-396).
LoadIOErrorDies ==
    /\ proc.pc \in { "read", "open", "write" }
    /\ proc' = Idle
    /\ UNCHANGED << uuidDir, store, returned, rewritten, interrupted >>
    /\ UNCHANGED << builderVars, resolverVars, mdVars, tryVars >>

\* os.makedirs(UUID_STORAGE_DIR, exist_ok=True) (utils.py:386).
LoadMakedirs ==
    /\ proc.pc = "makedirs"
    /\ uuidDir' = TRUE
    /\ proc' = [proc EXCEPT !.pc = "open"]
    /\ UNCHANGED << store, returned, rewritten, interrupted >>
    /\ UNCHANGED << builderVars, resolverVars, mdVars, tryVars >>

\* open(uuid_file, 'w') creates or truncates the file (utils.py:387).
LoadOpen ==
    /\ proc.pc = "open"
    /\ store' = Put(store, proc.key, << >>)
    /\ rewritten' = IF returned[proc.key] # << >>
                    THEN rewritten \cup { proc.key }
                    ELSE rewritten
    /\ proc' = [proc EXCEPT !.pc = "write"]
    /\ UNCHANGED << uuidDir, returned, interrupted >>
    /\ UNCHANGED << builderVars, resolverVars, mdVars, tryVars >>

\* f.write(uuid) and the close that flushes it (utils.py:387-388).
LoadWrite ==
    /\ proc.pc = "write"
    /\ store' = Put(store, proc.key, proc.uuid)
    /\ proc' = [proc EXCEPT !.pc = "return"]
    /\ UNCHANGED << uuidDir, returned, rewritten, interrupted >>
    /\ UNCHANGED << builderVars, resolverVars, mdVars, tryVars >>

\* return uuid (utils.py:390).
LoadReturn ==
    /\ proc.pc = "return"
    /\ returned' = [returned EXCEPT ![proc.key] = Append(@, proc.uuid)]
    /\ proc' = Idle
    /\ UNCHANGED << uuidDir, store, rewritten, interrupted >>
    /\ UNCHANGED << builderVars, resolverVars, mdVars, tryVars >>

\* The process is killed inside load_or_generate_uuid; a fresh process takes over.
Interrupt ==
    /\ proc.pc # "idle"
    /\ interrupted' = interrupted \cup { proc.key }
    /\ proc' = Idle
    /\ UNCHANGED << uuidDir, store, returned, rewritten >>
    /\ UNCHANGED << builderVars, resolverVars, mdVars, tryVars >>

-----------------------------------------------------------------------------
(* scripts/utils.py: the device resolver.                                  *)
(* The texts of the resolver are sequences of pieces.  A piece is a string *)
(* the code copies or compares as a whole (a device path, a directory      *)
(* prefix, a locator kind, a partition UUID); the separators ":" and "="   *)
(* and the characters of a RAID UUID, which the code slices, are pieces of *)
(* their own.  The empty sequence is the empty string.                     *)

IsPrefix(s, t) == Len(s) <= Len(t) /\ SubSeq(t, 1, Len(s)) = s

Rep(c, n) == [ i \in 1..n |-> c ]

\* str.lower() on the pieces that have upper-case letters; every other piece of
\* the model is lower-case already.
UpperToLower ==
    ("A" :> "a") @@ ("PT1" :> "pt1") @@ ("PT9" :> "pt9") @@ ("UUID" :> "uuid")
    @@ ("/dev/mapper/Crypt" :> "/dev/mapper/crypt")

Lower(s) ==
    [ i \in DOMAIN s |-> IF s[i] \in DOMAIN UpperToLower THEN UpperToLower[s[i]]
                         ELSE s[i] ]

\* s.replace(p, '') for a one-character p.
Without(s, p) == SelectSeq(s, LAMBDA x : x # p)

\* The Python slice s[a:b], 0 <= a <= b.
Slice(s, a, b) == SubSeq(s, a + 1, IF b < Len(s) THEN b ELSE Len(s))

\* ':' in entry, and entry.split(':', 1) (utils.py:345, 348).
HasColon(entry) == \E i \in DOMAIN entry : entry[i] = ":"
FirstColon(entry) == CHOOSE i \in DOMAIN entry :
                        entry[i] = ":" /\ \A j \in 1..(i - 1) : entry[j] # ":"
BeforeColon(entry) == SubSeq(entry, 1, FirstColon(entry) - 1)
AfterColon(entry) == SubSeq(entry, FirstColon(entry) + 1, Len(entry))

\* uuid_to_mduuid (utils.py:303-307).
utils_uuid_to_mduuid(uuid) ==
    LET u == Without(Lower(uuid), "-")
    IN  Slice(u, 0, 8) \o << ":" >> \o Slice(u, 8, 16) \o << ":" >>
        \o Slice(u, 16, 24) \o << ":" >> \o Slice(u, 24, 32)

\* The errors of the resolver: the messages die (utils.py:42-51) is called
\* with, and the exceptions no handler of the resolver catches.
DieErrors ==
    { "UnknownIdentifier", "InvalidEntryFormat", "UnknownKind", "DeviceNotFound",
      "ProbeUtilityUnavailable", "ProbeFailed", "LsblkEmpty" }
UnhandledExceptions ==
    { "FileNotFoundError", "CalledProcessError", "KeyError", "ValueError" }

\* A run of resolver code: the two globals, the entry and device text computed
\* so far, the text canonicalize_device was given, the utilities executed, and
\* how the run ended.
ResolverRun(table, cache) ==
    [ table |-> table, cache |-> cache, entry |-> << >>, dev |-> << >>,
      given |-> None, probes |-> << >>, err |-> NoError ]

\* Faulty variant of die: the message is printed and the run goes on.
die_returns(r, kind) == r

\* die (utils.py:42-51): sys.exit(1) ends the run.
die(r, kind) == IF r.err = NoError THEN [r EXCEPT !.err = kind] ELSE r

\* An exception that propagates out of the resolver.
Raise(r, exception) == IF r.err = NoError THEN [r EXCEPT !.err = exception] ELSE r

Probe(r, utility) == [r EXCEPT !.probes = Append(@, utility)]

\* os.path.realpath (utils.py:412, 417): the target of a symlink, the working
\* directory for the empty path, the path itself otherwise.
Realpath(s, path) ==
    IF path \in DOMAIN s.links THEN s.links[path]
    ELSE IF path = << >> THEN s.cwd ELSE path

\* _run_blkid_export(tag_value=...) followed by the DEVNAME search
\* (utils.py:205-225, 236-249).  The first blkid run is outside the try block
\* and the handler catches CalledProcessError only.
get_device_by_blkid_field(s, r, blkid_field, field_value) ==
    LET tag_value == << blkid_field, "=" >> \o field_value
        r1 == Probe(r, "blkid")
    IN  IF ~s.blkid.installed THEN Raise(r1, "FileNotFoundError")
        ELSE IF s.blkid.gcFails THEN Raise(r1, "CalledProcessError")
        ELSE IF tag_value \notin DOMAIN s.blkid.found THEN die(r1, "DeviceNotFound")
        ELSE [r1 EXCEPT !.dev = s.blkid.found[tag_value]]

\* Faulty variant of get_device_by_partuuid: blkid is asked even when the
\* symlink exists.
get_device_by_partuuid_blkid(s, r, partuuid) ==
    get_device_by_blkid_field(s, r, "PARTUUID", partuuid)

\* get_device_by_partuuid (utils.py:251-256).
get_device_by_partuuid(s, r, partuuid) ==
    LET by_path == << "/dev/disk/by-partuuid/" >> \o partuuid
    IN  IF by_path \in s.paths THEN [r EXCEPT !.dev = by_path]
        ELSE get_device_by_blkid_field(s, r, "PARTUUID", partuuid)

\* get_device_by_uuid (utils.py:258-263).
get_device_by_uuid(s, r, uuid) ==
    LET by_path == << "/dev/disk/by-uuid/" >> \o uuid
    IN  IF by_path \in s.paths THEN [r EXCEPT !.dev = by_path]
        ELSE get_device_by_blkid_field(s, r, "UUID", uuid)

\* cache_lsblk_output (utils.py:265-279).
cache_lsblk_output(s, r) ==
    LET r1 == Probe(r, "lsblk")
    IN  IF ~s.lsblk.installed THEN die(r1, "ProbeUtilityUnavailable")
        ELSE IF s.lsblk.fails THEN die(r1, "ProbeFailed")
        ELSE [r1 EXCEPT !.cache = s.lsblk.rows]

\* The rows of the lower-cased lsblk output that the pattern
\* name="([^"]+)" ptuuid="<ptuuid>" partuuid="" matches (utils.py:296-297).
PtuuidMatches(output, ptuuid) ==
    { i \in DOMAIN output :
        /\ output[i].name # << >>
        /\ Lower(output[i].ptuuid) = ptuuid
        /\ output[i].partuuid = << >> }

\* Faulty variant of CacheMissing: the cache is never taken as filled.
CacheMissing_always(cache) == TRUE

\* CACHED_LSBLK_OUTPUT is None (utils.py:286).
CacheMissing(cache) == cache = None

\* get_device_by_ptuuid (utils.py:281-301).
get_device_by_ptuuid(s, r, ptuuid_arg) ==
    LET ptuuid == Lower(ptuuid_arg)
        r1 == IF CacheMissing(r.cache) THEN cache_lsblk_output(s, r) ELSE r
        output == r1.cache
        hits == PtuuidMatches(output, ptuuid)
        first == CHOOSE i \in hits : \A j \in hits : i <= j
    IN  IF r1.err # NoError THEN r1
        ELSE IF output = << >> THEN die(r1, "LsblkEmpty")
        ELSE IF hits = {} THEN die(r1, "DeviceNotFound")
        ELSE [r1 EXCEPT !.dev = Lower(output[first].name)]

\* The arrays of the lower-cased mdadm output that the pattern
\* array (\S+)\s+uuid=<mduuid> matches (utils.py:328-329): the UUID has to be
\* the first field after the device.
MdadmMatches(arrays, mduuid) ==
    { i \in DOMAIN arrays :
        /\ arrays[i].fields # << >>
        /\ Lower(<< arrays[i].fields[1].key >>) = << "uuid" >>
        /\ IsPrefix(mduuid, Lower(arrays[i].fields[1].value)) }

\* get_device_by_mdadm_uuid (utils.py:309-333).
get_device_by_mdadm_uuid(s, r, uuid) ==
    LET mduuid == utils_uuid_to_mduuid(uuid)
        r1 == Probe(r, "mdadm")
        hits == MdadmMatches(s.mdadm.arrays, mduuid)
        first == CHOOSE i \in hits : \A j \in hits : i <= j
    IN  IF ~s.mdadm.installed THEN die(r1, "ProbeUtilityUnavailable")
        ELSE IF s.mdadm.fails THEN die(r1, "ProbeFailed")
        ELSE IF hits = {} THEN die(r1, "DeviceNotFound")
        ELSE [r1 EXCEPT !.dev = Lower(s.mdadm.arrays[first].dev)]

\* get_device_by_luks_name (utils.py:335-337).
get_device_by_luks_name(r, name) == [r EXCEPT !.dev = << "/dev/mapper/" >> \o name]

\* canonicalize_device (utils.py:407-423) on the device text of r.
\* os.listdir raises FileNotFoundError when /dev/disk/by-id does not exist.
canonicalize_device(s, r) ==
    LET given_dev == r.dev
        given_dev_realpath == Realpath(s, given_dev)
        full_path(i) == << "/dev/disk/by-id/", s.byId.names[i] >>
        hits == { i \in DOMAIN s.byId.names :
                    Realpath(s, full_path(i)) = given_dev_realpath }
        first == CHOOSE i \in hits : \A j \in hits : i <= j
        r1 == [r EXCEPT !.given = given_dev]
    IN  IF r.err # NoError THEN r
        ELSE IF ~s.byId.present THEN Raise(r1, "FileNotFoundError")
        ELSE IF hits # {} THEN [r1 EXCEPT !.dev = full_path(first)]
        ELSE r1

\* Faulty variant of TableEntry: the entry is taken out of the table.
TableEntry_pop(r, id_val) ==
    IF id_val \in DOMAIN r.table
    THEN [r EXCEPT !.entry = r.table[id_val],
                   !.table = [ k \in (DOMAIN r.table) \ { id_val } |-> r.table[k] ]]
    ELSE Raise(r, "KeyError")

\* entry = DISK_ID_TO_RESOLVABLE[id_val] (utils.py:344).
TableEntry(r, id_val) ==
    IF id_val \in DOMAIN r.table THEN [r EXCEPT !.entry = r.table[id_val]]
    ELSE Raise(r, "KeyError")

\* The dispatch on the locator kind (utils.py:350-364), run on a live r.
Dispatch(s, r, type_val, arg) ==
    IF type_val = << "partuuid" >> THEN get_device_by_partuuid(s, r, arg)
    ELSE IF type_val = << "ptuuid" >> THEN get_device_by_ptuuid(s, r, arg)
    ELSE IF type_val = << "uuid" >> THEN get_device_by_uuid(s, r, arg)
    ELSE IF type_val = << "mdadm" >> THEN get_device_by_mdadm_uuid(s, r, arg)
    ELSE IF type_val = << "luks" >> THEN get_device_by_luks_name(r, arg)
    ELSE IF type_val = << "device" >> THEN [r EXCEPT !.dev = arg]
    ELSE die(r, "UnknownKind")

\* resolve_device_by_id (utils.py:339-366).
resolve_device_by_id(s, r, id_val) ==
    LET r1 == IF id_val \notin DOMAIN r.table THEN die(r, "UnknownIdentifier") ELSE r
        r2 == IF r1.err = NoError THEN TableEntry(r1, id_val) ELSE r1
        entry == r2.entry
        r3 == IF r2.err = NoError /\ ~HasColon(entry)
              THEN die(r2, "InvalidEntryFormat") ELSE r2
        \* unpacking the result of split raises ValueError without a ':'
        r4 == IF r3.err = NoError /\ ~HasColon(entry)
              THEN Raise(r3, "ValueError") ELSE r3
        r5 == IF r4.err = NoError
              THEN Dispatch(s, r4, BeforeColon(entry), AfterColon(entry)) ELSE r4
    IN  canonicalize_device(s, r5)

-----------------------------------------------------------------------------
(* The machines and resolve tables the resolver is run on.                 *)

RaidUuid ==
    Rep("A", 8) \o << "-" >> \o Rep("b", 4) \o << "-" >> \o Rep("c", 4)
    \o << "-" >> \o Rep("d", 4) \o << "-" >> \o Rep("e", 12)

\* The same UUID as mdadm prints it.
RaidMdUuid ==
    Rep("a", 8) \o << ":" >> \o Rep("b", 4) \o Rep("c", 4) \o << ":" >>
    \o Rep("d", 4) \o Rep("e", 4) \o << ":" >> \o Rep("e", 8)

DiskRow == [ name |-> << "/dev/sda" >>, ptuuid |-> << "pt1" >>, partuuid |-> << >> ]
PartRow == [ name |-> << "/dev/sda1" >>, ptuuid |-> << "pt1" >>,
             partuuid |-> << "P1" >> ]
MapperRow == [ name |-> << "/dev/mapper/Crypt" >>, ptuuid |-> << >>,
               partuuid |-> << >> ]

\* A machine with one disk that has two by-id aliases, udev symlinks, and all
\* probe utilities.
SystemFull ==
    [ cwd |-> << "/root" >>,
      links |-> (<< "/dev/disk/by-id/", "ata-D1" >> :> << "/dev/sda" >>)
                @@ (<< "/dev/disk/by-id/", "wwn-D1" >> :> << "/dev/sda" >>)
                @@ (<< "/dev/disk/by-id/", "ata-D1-part1" >> :> << "/dev/sda1" >>)
                @@ (<< "/dev/disk/by-partuuid/", "P1" >> :> << "/dev/sda1" >>)
                @@ (<< "/dev/disk/by-uuid/", "U1" >> :> << "/dev/sda1" >>),
      paths |-> { << "/dev/disk/by-partuuid/", "P1" >>,
                  << "/dev/disk/by-uuid/", "U1" >> },
      byId |-> [ present |-> TRUE,
                 names |-> << "ata-D1", "wwn-D1", "ata-D1-part1" >> ],
      blkid |-> [ installed |-> TRUE, gcFails |-> FALSE,
                  found |-> (<< "UUID", "=", "U1" >> :> << "/dev/sda1" >>)
                            @@ (<< "PARTUUID", "=", "P2" >> :> << "/dev/sda2" >>) ],
      lsblk |-> [ installed |-> TRUE, fails |-> FALSE,
                  rows |-> << DiskRow, PartRow, MapperRow >> ],
      mdadm |-> [ installed |-> TRUE, fails |-> FALSE,
                  arrays |-> << [ dev |-> << "/dev/md0" >>,
                                  fields |-> << [ key |-> "UUID",
                                                  value |-> RaidMdUuid ] >> ] >> ] ]

\* The same disk on a machine whose by-id directory lists the aliases in the
\* other order, without udev symlinks for partitions, where lsblk fails and
\* mdadm prints the metadata version before the UUID.
SystemOther ==
    [ cwd |-> << "/root" >>,
      links |-> (<< "/dev/disk/by-id/", "ata-D1" >> :> << "/dev/sda" >>)
                @@ (<< "/dev/disk/by-id/", "wwn-D1" >> :> << "/dev/sda" >>),
      paths |-> {},
      byId |-> [ present |-> TRUE, names |-> << "wwn-D1", "ata-D1" >> ],
      blkid |-> [ installed |-> TRUE, gcFails |-> FALSE,
                  found |-> (<< "PARTUUID", "=", "P1" >> :> << "/dev/sda1" >>)
                            @@ (<< "UUID", "=", "U1" >> :> << "/dev/sda1" >>) ],
      lsblk |-> [ installed |-> TRUE, fails |-> TRUE, rows |-> << >> ],
      mdadm |-> [ installed |-> TRUE, fails |-> FALSE,
                  arrays |-> << [ dev |-> << "/dev/md0" >>,
                                  fields |-> << [ key |-> "metadata",
                                                  value |-> << "1.2" >> ],
                                                [ key |-> "UUID",
                                                  value |-> RaidMdUuid ] >> ] >> ] ]

\* A machine with the utilities installed and no block device known to them.
SystemEmpty ==
    [ cwd |-> << "/root" >>,
      links |-> EmptyDict,
      paths |-> {},
      byId |-> [ present |-> TRUE, names |-> << >> ],
      blkid |-> [ installed |-> TRUE, gcFails |-> FALSE, found |-> EmptyDict ],
      lsblk |-> [ installed |-> TRUE, fails |-> FALSE, rows |-> << >> ],
      mdadm |-> [ installed |-> TRUE, fails |-> FALSE, arrays |-> << >> ] ]

\* A machine without /dev/disk/by-id and without the probe utilities.
SystemBare ==
    [ cwd |-> << "/root" >>,
      links |-> EmptyDict,
      paths |-> {},
      byId |-> [ present |-> FALSE, names |-> << >> ],
      blkid |-> [ installed |-> FALSE, gcFails |-> FALSE, found |-> EmptyDict ],
      lsblk |-> [ installed |-> FALSE, fails |-> FALSE, rows |-> << >> ],
      mdadm |-> [ installed |-> FALSE, fails |-> FALSE, arrays |-> << >> ] ]

Systems == { SystemFull, SystemOther, SystemEmpty, SystemBare }

DeviceEntries ==
    { << "device", ":", "/dev/sda" >>, << "device", ":", "/dev/sdz" >>,
      << "device", ":" >>,
      << "device", ":", "/dev/disk/by-path/pci-0000", ":", "00" >> }

ProbedEntries ==
    { << "partuuid", ":", "P1" >>, << "partuuid", ":", "P9" >>,
      << "uuid", ":", "U1" >>, << "ptuuid", ":", "PT1" >>,
      << "ptuuid", ":", "PT9" >>, << "mdadm", ":" >> \o RaidUuid,
      << "luks", ":", "root" >> }

MalformedEntries == { << "/dev/sda" >>, << "label", ":", "boot" >> }

Entries == DeviceEntries \cup ProbedEntries \cup MalformedEntries

\* The Identifiers that may have a table entry, and those resolved.
TableIds == { gpt, part_root }
ResolveArgs == { gpt, part_root, part_swap }

ResolveTables == UNION { [ ids -> Entries ] : ids \in SUBSET TableIds }

\* The paths canonicalize_device is called with directly.
CanonArgs ==
    { << "/dev/sda" >>, << "/dev/sda1" >>, << "/dev/sdz" >>, << >>,
      << "/dev/disk/by-id/", "ata-D1" >>, << "/dev/disk/by-id/", "wwn-D1" >>,
      << "/dev/disk/by-partuuid/", "P1" >> }

NoCall == [ op |-> "none", id |-> << >>, pre |-> EmptyDict, dev |-> None,
            given |-> None, again |-> None, probes |-> << >>, err |-> NoError ]

-----------------------------------------------------------------------------
(* Calls of the resolver.                                                  *)

\* The process is still running: no earlier call ended it through die's
\* sys.exit (utils.py:51) or an uncaught exception.
ResolverRunning == rlast.err = NoError /\ nresolves < MaxResolves

Times(probes, utility) == Len(SelectSeq(probes, LAMBDA u : u = utility))

Call_resolve_device_by_id ==
    /\ ResolverRunning
    /\ \E id_val \in ResolveArgs :
         LET r == resolve_device_by_id(
                      system, ResolverRun(DISK_ID_TO_RESOLVABLE, CACHED_LSBLK_OUTPUT),
                      id_val)
         IN  /\ DISK_ID_TO_RESOLVABLE' = r.table
             /\ CACHED_LSBLK_OUTPUT' = r.cache
             /\ rlast' = [ op |-> "resolve_device_by_id", id |-> id_val,
                           pre |-> DISK_ID_TO_RESOLVABLE,
                           dev |-> IF r.err = NoError THEN r.dev ELSE None,
                           given |-> r.given, again |-> None,
                           probes |-> r.probes, err |-> r.err ]
             /\ resolved' = IF r.err = NoError
                            THEN [resolved EXCEPT ![id_val] = Append(@, r.dev)]
                            ELSE resolved
             /\ lsblkRuns' = lsblkRuns + Times(r.probes, "lsblk")
    /\ nresolves' = nresolves + 1
    /\ UNCHANGED << system, builderVars, storeVars, mdVars, tryVars >>

\* canonicalize_device(canonicalize_device(given_dev)) (utils.py:407-423): a
\* direct call, followed by a call on the path it returned.
Call_canonicalize_device ==
    /\ ResolverRunning
    /\ \E given_dev \in CanonArgs :
         LET r0 == ResolverRun(DISK_ID_TO_RESOLVABLE, CACHED_LSBLK_OUTPUT)
             r1 == canonicalize_device(system, [r0 EXCEPT !.dev = given_dev])
             r2 == canonicalize_device(system, r1)
         IN  rlast' = [ op |-> "canonicalize_device", id |-> << >>,
                        pre |-> DISK_ID_TO_RESOLVABLE,
                        dev |-> IF r1.err = NoError THEN r1.dev ELSE None,
                        given |-> given_dev,
                        again |-> IF r2.err = NoError THEN r2.dev ELSE None,
                        probes |-> r2.probes, err |-> r2.err ]
    /\ nresolves' = nresolves + 1
    /\ UNCHANGED << DISK_ID_TO_RESOLVABLE, CACHED_LSBLK_OUTPUT, system, resolved,
                    lsblkRuns, builderVars, storeVars, mdVars, tryVars >>

\* A direct call of create_resolve_entry (config.py:26-29, functions.py:74-81).
Call_create_resolve_entry ==
    /\ ResolverRunning
    /\ \E new_id \in TableIds, entry \in { << "device", ":", "/dev/sdb" >> } :
         LET r == create_resolve_entry(
                      ResolverRun(DISK_ID_TO_RESOLVABLE, CACHED_LSBLK_OUTPUT),
                      new_id, BeforeColon(entry), AfterColon(entry))
         IN  /\ DISK_ID_TO_RESOLVABLE' = r.table
             /\ rlast' = [ op |-> "create_resolve_entry", id |-> new_id,
                           pre |-> DISK_ID_TO_RESOLVABLE, dev |-> None,
                           given |-> None, again |-> None, probes |-> << >>,
                           err |-> r.err ]
    /\ nresolves' = nresolves + 1
    /\ UNCHANGED << CACHED_LSBLK_OUTPUT, system, resolved, lsblkRuns,
                    builderVars, storeVars, mdVars, tryVars >>

-----------------------------------------------------------------------------
(* The three uuid_to_mduuid functions.  UUID texts are sequences of        *)
(* characters.                                                             *)

\* uuid_to_mduuid (config.py:22-24).
config_uuid_to_mduuid(uuid) == Without(uuid, "-")

\* GentooInstallerUtils.uuid_to_mduuid (functions.py:88-91).
functions_uuid_to_mduuid(uuid) == Without(uuid, "-")

\* The UUID texts the functions are applied to: five groups of 8, 4, 4, 4 and
\* 12 hexadecimal digits, one digit repeated per group.
GroupDigits == { "0", "a", "A" }

UuidOf(a, b, c, d, e) ==
    Rep(a, 8) \o << "-" >> \o Rep(b, 4) \o << "-" >> \o Rep(c, 4) \o << "-" >>
    \o Rep(d, 4) \o << "-" >> \o Rep(e, 12)

MdInputs == { UuidOf(a, b, c, d, e) : a, b, c, d, e \in GroupDigits }

\* What mdOut holds before the functions are called.
NoMdCall == [ config |-> None, functions |-> None, utils |-> None ]

Call_uuid_to_mduuid ==
    /\ mdOut = NoMdCall
    /\ mdOut' = [ config |-> config_uuid_to_mduuid(mdUuid),
                  functions |-> functions_uuid_to_mduuid(mdUuid),
                  utils |-> utils_uuid_to_mduuid(mdUuid) ]
    /\ UNCHANGED << mdUuid, builderVars, storeVars, resolverVars, tryVars >>

-----------------------------------------------------------------------------
(* scripts/utils.py: try_command.  One process runs the call; the operator *)
(* types the responses.                                                    *)

\* What the operator types at the prompt.
Responses ==
    { << >>, << "s" >>, << "s", "h", "e", "l", "l" >>, << "r" >>,
      << " ", "r", "e", "t", "r", "y" >>, << "A" >>, << "c", " " >>, << "p" >>,
      << "x" >>, << "n" >> }

\* The exit statuses of an execution: 127 stands for a command that was not
\* found, 1 for any other failure (utils.py:122-129).
ExitStatuses == { 0, 1, 127 }

\* Faulty variant of AnswerKind: a print answer is taken as retry.
AnswerKind_print_retries(response) ==
    IF response \in { << >>, << "s" >>, << "s", "h", "e", "l", "l" >> } THEN "shell"
    ELSE IF response \in { << "r" >>, << "r", "e", "t", "r", "y" >>, << "p" >>,
                           << "p", "r", "i", "n", "t" >> } THEN "retry"
    ELSE IF response \in { << "a" >>, << "a", "b", "o", "r", "t" >> } THEN "abort"
    ELSE IF response \in { << "c" >>, << "c", "o", "n", "t", "i", "n", "u", "e" >> }
    THEN "continue"
    ELSE "other"

\* The branch of the prompt loop a response takes (utils.py:139-153).
AnswerKind(response) ==
    IF response \in { << >>, << "s" >>, << "s", "h", "e", "l", "l" >> } THEN "shell"
    ELSE IF response \in { << "r" >>, << "r", "e", "t", "r", "y" >> } THEN "retry"
    ELSE IF response \in { << "a" >>, << "a", "b", "o", "r", "t" >> } THEN "abort"
    ELSE IF response \in { << "c" >>, << "c", "o", "n", "t", "i", "n", "u", "e" >> }
    THEN "continue"
    ELSE IF response \in { << "p" >>, << "p", "r", "i", "n", "t" >> } THEN "print"
    ELSE "other"

Event(ev, arg) == [ ev |-> ev, arg |-> arg ]

TryMore == Len(tryLog) < MaxTrySteps

\* try_command is called (utils.py:111).
TryCall ==
    /\ tryPc = "idle"
    /\ tryPc' = "run"
    /\ UNCHANGED << tryLog, builderVars, storeVars, resolverVars, mdVars >>

\* One execution of the command (utils.py:120-129) and the test of its status
\* (utils.py:131, 154-155).
TryRun ==
    /\ tryPc = "run"
    /\ TryMore
    /\ \E cmd_status \in ExitStatuses :
         IF cmd_status # 0
         THEN /\ tryLog' = Append(tryLog, Event("run", cmd_status))
              /\ tryPc' = "prompt"
         ELSE /\ tryLog' = tryLog \o << Event("run", cmd_status),
                                        Event("return", "True") >>
              /\ tryPc' = "returned"
    /\ UNCHANGED << builderVars, storeVars, resolverVars, mdVars >>

\* One response read at the prompt and the branch it takes (utils.py:137-153).
TryAnswer ==
    /\ tryPc = "prompt"
    /\ TryMore
    /\ \E typed \in Responses :
         LET response == Lower(Strip(typed))
             kind == AnswerKind(response)
             answered == Append(tryLog, Event("answer", response))
         IN  IF kind = "shell" THEN tryLog' = answered /\ tryPc' = "shell"
             ELSE IF kind = "retry" THEN tryLog' = answered /\ tryPc' = "run"
             ELSE IF kind = "abort"
             THEN /\ tryLog' = Append(answered, Event("die", "Installation aborted"))
                  /\ tryPc' = "died"
             ELSE IF kind = "continue"
             THEN /\ tryLog' = Append(answered, Event("return", "True"))
                  /\ tryPc' = "returned"
             ELSE tryLog' = answered /\ tryPc' = "prompt"
    /\ UNCHANGED << builderVars, storeVars, resolverVars, mdVars >>

\* /bin/bash cannot be started (utils.py:142): FileNotFoundError, which
\* try_command does not catch.
TryShellMissing ==
    /\ tryPc = "shell"
    /\ tryLog' = Append(tryLog, Event("raise", "FileNotFoundError"))
    /\ tryPc' = "raised"
    /\ UNCHANGED << builderVars, storeVars, resolverVars, mdVars >>

\* The interactive shell ends; break leaves the prompt loop for the top of the
\* outer loop (utils.py:142-143).
TryShellExit ==
    /\ tryPc = "shell"
    /\ tryLog' = Append(tryLog, Event("shell_exit", "/bin/bash"))
    /\ tryPc' = "run"
    /\ UNCHANGED << builderVars, storeVars, resolverVars, mdVars >>

\* input() meets the end of standard input (utils.py:137): EOFError, which
\* try_command does not catch.
TryEOF ==
    /\ tryPc = "prompt"
    /\ tryLog' = Append(tryLog, Event("raise", "EOFError"))
    /\ tryPc' = "raised"
    /\ UNCHANGED << builderVars, storeVars, resolverVars, mdVars >>

-----------------------------------------------------------------------------

InitBuilder ==
    /\ config = InitConfig
    /\ last = [ op |-> "none", args |-> EmptyDict, pre |-> InitConfig, err |-> NoError ]
    /\ trace = << >>
    /\ remainingDone = {}
    /\ ncalls = 0

InitStore ==
    /\ uuidDir = FALSE
    /\ store = EmptyDict
    /\ proc = Idle
    /\ returned = [ k \in Keys |-> << >> ]
    /\ rewritten = {}
    /\ interrupted = {}

\* The resolver's globals as the module defines them (utils.py:13, 16).
InitResolver ==
    /\ DISK_ID_TO_RESOLVABLE = EmptyDict
    /\ CACHED_LSBLK_OUTPUT = None
    /\ system = SystemFull
    /\ rlast = NoCall
    /\ resolved = [ id_val \in ResolveArgs |-> << >> ]
    /\ lsblkRuns = 0
    /\ nresolves = 0

\* The resolver on a machine and a resolve table filled in by its caller.
InitResolverInputs ==
    /\ DISK_ID_TO_RESOLVABLE \in ResolveTables
    /\ CACHED_LSBLK_OUTPUT = None
    /\ system \in Systems
    /\ rlast = NoCall
    /\ resolved = [ id_val \in ResolveArgs |-> << >> ]
    /\ lsblkRuns = 0
    /\ nresolves = 0

\* No uuid_to_mduuid call made yet.
InitMd ==
    /\ mdUuid = UuidOf("0", "0", "0", "0", "0")
    /\ mdOut = NoMdCall

\* The three uuid_to_mduuid functions on a UUID text given by the caller.
InitMdInputs ==
    /\ mdUuid \in MdInputs
    /\ mdOut = NoMdCall

InitTry ==
    /\ tryPc = "idle"
    /\ tryLog = << >>

Init == InitBuilder /\ InitStore /\ InitResolver /\ InitMd /\ InitTry

Next ==
    \/ Call_register_existing
    \/ Call_create_gpt
    \/ Call_create_partition
    \/ Call_create_classic_single_disk_layout
    \/ Call_verify_existing_unique_ids

Spec == Init /\ [][Next]_vars

NextStore ==
    \/ \E key \in Keys : LoadCall(key)
    \/ LoadRead
    \/ LoadUuidgen
    \/ LoadUuidgenDies
    \/ LoadIOErrorDies
    \/ LoadMakedirs
    \/ LoadOpen
    \/ LoadWrite
    \/ LoadReturn
    \/ Interrupt

StoreSpec == Init /\ [][NextStore]_vars

InitResolve ==
    InitBuilder /\ InitStore /\ InitResolverInputs /\ InitMd /\ InitTry

NextResolve ==
    \/ Call_resolve_device_by_id
    \/ Call_canonicalize_device
    \/ Call_create_resolve_entry

ResolveSpec == InitResolve /\ [][NextResolve]_vars

InitMduuid ==
    InitBuilder /\ InitStore /\ InitResolver /\ InitMdInputs /\ InitTry

NextMduuid == Call_uuid_to_mduuid

MduuidSpec == InitMduuid /\ [][NextMduuid]_vars

NextTry ==
    \/ TryCall
    \/ TryRun
    \/ TryAnswer
    \/ TryShellMissing
    \/ TryShellExit
    \/ TryEOF

TrySpec == Init /\ [][NextTry]_vars

-----------------------------------------------------------------------------
(* Properties of the builder, stated for Spec.                             *)

\* The errors with which register_existing, create_gpt and create_partition
\* reject a call.
ValidationErrors ==
    { "IdRequired", "IdInvalidChar", "IdExists", "IdNotFound",
      "InvalidOption", "OnlyOneOf", "TableFull" }

InvalidIdentifierErrors == { "IdRequired", "IdInvalidChar" }

CreateOps == { "register_existing", "create_gpt", "create_partition" }

\* The identifiers earlier successful create operations created, read off a plan.
CreatedIn(plan) ==
    { plan[i].new_id : i \in { j \in DOMAIN plan :
          plan[j].action \in { "existing", "create_gpt", "create_partition" } } }

BothGiven(e) == e.op = "create_gpt" /\ e.args.device # "" /\ e.args.id # << >>
NeitherGiven(e) == e.op = "create_gpt" /\ e.args.device = "" /\ e.args.id = << >>

\* C1: a builder call rejected with a validation error leaves DISK_ID_TO_UUID,
\* DISK_ID_PART_TO_GPT_ID, DISK_GPT_HAD_SIZE_REMAINING and DISK_ACTIONS exactly
\* as they were before the call.
C1_RejectedCallChangesNothing ==
    \A i \in DOMAIN trace :
        LET e == trace[i]
        IN  (e.op \in CreateOps /\ e.err \in ValidationErrors) =>
               /\ e.post.DISK_ID_TO_UUID = e.pre.DISK_ID_TO_UUID
               /\ e.post.DISK_ID_PART_TO_GPT_ID = e.pre.DISK_ID_PART_TO_GPT_ID
               /\ e.post.DISK_GPT_HAD_SIZE_REMAINING = e.pre.DISK_GPT_HAD_SIZE_REMAINING
               /\ e.post.DISK_ACTIONS = e.pre.DISK_ACTIONS

\* C2 as stated: once a create_partition with id=t and size "remaining" has
\* succeeded, every later create_partition with id=t fails with TableFull,
\* whatever its new_id, size and type.
C2_LaterPartitionAlwaysTableFull ==
    \A i \in DOMAIN trace :
        LET e == trace[i]
        IN  (e.op = "create_partition" /\ e.args.id \in e.done) => e.err = "TableFull"

\* C2 as amended: once a create_partition with id=t and size "remaining" has
\* succeeded, every later create_partition with id=t fails, whatever its
\* new_id, size and type: with TableFull when its new_id is a valid
\* unregistered identifier and its type is in the enum, and otherwise with the
\* identifier or type error that is checked first.
C2_LaterPartitionFails ==
    \A i \in DOMAIN trace :
        LET e == trace[i]
            fresh == /\ e.args.new_id # << >>
                     /\ ";" \notin Range(e.args.new_id)
                     /\ e.args.new_id \notin DOMAIN e.pre.DISK_ID_TO_UUID
        IN  (e.op = "create_partition" /\ e.args.id \in e.done) =>
               /\ e.err # NoError
               /\ IF fresh /\ e.args.type \in PartitionTypes
                  THEN e.err = "TableFull"
                  ELSE e.err \in { "IdRequired", "IdInvalidChar", "IdExists",
                                   "InvalidOption" }

\* C2 witness: a create_partition on a table that already took a size=remaining
\* partition was rejected with TableFull.
C2_Witness ==
    \E i \in DOMAIN trace :
        /\ trace[i].op = "create_partition"
        /\ trace[i].args.id \in trace[i].done
        /\ trace[i].err = "TableFull"

IsPartitionAction(a) == a.action = "create_partition"

\* C3: in the plan, each table has at most one create_partition with
\* size=remaining, and no create_partition for that table after it.
C3_RemainingIsLastOnItsTable ==
    \A i, j \in DOMAIN config.DISK_ACTIONS :
        LET a == config.DISK_ACTIONS[i]
            b == config.DISK_ACTIONS[j]
        IN  (/\ i < j
             /\ IsPartitionAction(a)
             /\ IsPartitionAction(b)
             /\ a.size = "remaining") => b.id # a.id

\* C3 witness: a plan in which a table has a partition and then its
\* size=remaining partition.
C3_Witness ==
    \E i, j \in DOMAIN config.DISK_ACTIONS :
        /\ i < j
        /\ IsPartitionAction(config.DISK_ACTIONS[i])
        /\ IsPartitionAction(config.DISK_ACTIONS[j])
        /\ config.DISK_ACTIONS[i].id = config.DISK_ACTIONS[j].id
        /\ config.DISK_ACTIONS[j].size = "remaining"

\* C4: every Identifier an appended action references as pre-existing was
\* registered before the call that appended it began, and is never the
\* Identifier the action itself creates.  For create_gpt and create_partition
\* the call is the primitive call; for the create_luks and format actions the
\* layout appends itself, the referenced Identifier must be registered.
C4_ReferencedIdPreExists ==
    /\ \A i \in DOMAIN trace :
          LET e == trace[i]
          IN  (/\ e.err = NoError
               /\ \/ e.op = "create_partition"
                  \/ e.op = "create_gpt" /\ e.args.id # << >>) =>
                 /\ e.args.id \in DOMAIN e.pre.DISK_ID_TO_UUID
                 /\ e.args.id # e.args.new_id
    /\ \A i \in DOMAIN config.DISK_ACTIONS :
          LET a == config.DISK_ACTIONS[i]
          IN  a.action \in { "create_luks", "format" } =>
                 a.id \in DOMAIN config.DISK_ID_TO_UUID

\* C5 as stated: after a create operation with new_id=id has succeeded, every
\* later create operation with that new_id fails with the duplicate-identifier
\* error; creating an empty Identifier or one containing ';' always fails with
\* an invalid-identifier error.
C5_DuplicateOrInvalidIdError ==
    \A i \in DOMAIN trace :
        LET e == trace[i]
        IN  e.op \in CreateOps =>
               /\ e.args.new_id \in CreatedIn(e.pre.DISK_ACTIONS) => e.err = "IdExists"
               /\ (e.args.new_id = << >> \/ ";" \in Range(e.args.new_id)) =>
                     e.err \in InvalidIdentifierErrors

\* C5 as amended: after a create operation with new_id=id has succeeded, every
\* later create operation with that new_id fails, and creating an empty
\* Identifier or one containing ';' always fails: with the
\* duplicate-identifier, respectively invalid-identifier, error, except that
\* create_gpt given both device and id fails with the
\* mutually-exclusive-arguments error, which it checks first.
C5_DuplicateOrInvalidIdFails ==
    \A i \in DOMAIN trace :
        LET e == trace[i]
        IN  e.op \in CreateOps =>
               /\ e.args.new_id \in CreatedIn(e.pre.DISK_ACTIONS) =>
                     e.err = IF BothGiven(e) THEN "OnlyOneOf" ELSE "IdExists"
               /\ (e.args.new_id = << >> \/ ";" \in Range(e.args.new_id)) =>
                     IF BothGiven(e)
                     THEN e.err = "OnlyOneOf"
                     ELSE e.err \in InvalidIdentifierErrors

\* C5 witness: a create operation was rejected as a duplicate of an Identifier
\* an earlier successful create operation had created.
C5_Witness ==
    \E i \in DOMAIN trace :
        /\ trace[i].op \in CreateOps
        /\ trace[i].args.new_id \in CreatedIn(trace[i].pre.DISK_ACTIONS)
        /\ trace[i].err = "IdExists"

\* C6: the Identifier to UUID map is one-to-one: distinct registered
\* Identifiers have distinct UUIDs.
C6_RegistryIsOneToOne ==
    \A a, b \in DOMAIN config.DISK_ID_TO_UUID :
        a # b => config.DISK_ID_TO_UUID[a] # config.DISK_ID_TO_UUID[b]

\* C9: create_gpt fails when both device and id are given, fails when neither
\* is given, and succeeds only when exactly one of the two is given.
C9_ExactlyOneOfDeviceAndId ==
    \A i \in DOMAIN trace :
        LET e == trace[i]
        IN  e.op = "create_gpt" =>
               /\ BothGiven(e) => e.err # NoError
               /\ NeitherGiven(e) => e.err # NoError
               /\ e.err = NoError => (e.args.device # "") # (e.args.id # << >>)

\* The outcome C10 states for a ';'-separated list, read off the list entry by
\* entry.
ExpectedSetCheck(ids_str, registry) ==
    LET pieces == SplitSemi(ids_str, << >>)
        trimmed == [ i \in DOMAIN pieces |-> Strip(pieces[i]) ]
        kept == { i \in DOMAIN pieces : trimmed[i] # << >> }
    IN  IF kept = {} THEN "EmptyArgument"
        ELSE IF \E i, j \in kept : i # j /\ trimmed[i] = trimmed[j]
        THEN "DuplicateInSet"
        ELSE IF \E i \in kept : trimmed[i] \notin DOMAIN registry
        THEN "UnknownInSet"
        ELSE NoError

\* C10: verify_existing_unique_ids, after trimming each entry, fails with
\* EmptyArgument when no non-blank entry remains, with DuplicateInSet when the
\* trimmed list repeats an entry, with UnknownIdentifier when an entry is not
\* registered, and otherwise succeeds; it never changes the builder's state.
C10_UniqueExistingSetCheck ==
    last.op = "verify_existing_unique_ids" =>
        /\ last.err = ExpectedSetCheck(last.args.ids, last.pre.DISK_ID_TO_UUID)
        /\ config = last.pre

\* C10 witness: a list of two distinct registered Identifiers, with blanks
\* around an entry, was accepted.
C10_Witness ==
    /\ last.op = "verify_existing_unique_ids"
    /\ last.err = NoError
    /\ last.args.ids = gpt \o << ";", " " >> \o part_root

\* The locator kind each create operation registers for its new Identifier
\* (config.py:154, 172, 193).
KindOf(op) ==
    IF op = "register_existing" THEN "device"
    ELSE IF op = "create_gpt" THEN "ptuuid" ELSE "partuuid"

\* C11: after a successful register_existing, create_gpt or create_partition,
\* the new Identifier has a descriptor in DISK_ID_TO_RESOLVABLE, of locator kind
\* device, ptuuid and partuuid respectively, so that resolving it cannot fail
\* for lack of a table entry.
C11_CreatedIdHasResolveEntry ==
    \A i \in DOMAIN trace :
        LET e == trace[i]
        IN  (e.op \in CreateOps /\ e.err = NoError) =>
               /\ e.args.new_id \in DOMAIN e.post.DISK_ID_TO_RESOLVABLE
               /\ e.post.DISK_ID_TO_RESOLVABLE[e.args.new_id][1] = KindOf(e.op)

\* C13: the action plan is append-only: for every builder operation, successful
\* or rejected, DISK_ACTIONS before the call is a prefix of DISK_ACTIONS after
\* it.
C13_PlanIsAppendOnly ==
    /\ IsPrefix(last.pre.DISK_ACTIONS, config.DISK_ACTIONS)
    /\ \A i \in DOMAIN trace :
           IsPrefix(trace[i].pre.DISK_ACTIONS, trace[i].post.DISK_ACTIONS)

\* C13 witness: a layout call on a plan that already held an action was rejected
\* after it had appended further actions.
C13_Witness ==
    /\ last.op = "create_classic_single_disk_layout"
    /\ last.err # NoError
    /\ last.pre.DISK_ACTIONS # << >>
    /\ Len(config.DISK_ACTIONS) > Len(last.pre.DISK_ACTIONS)

\* The actions of a plan of one kind, in plan order.
ActionsOf(plan, kind) == SelectSeq(plan, LAMBDA a : a.action = kind)

\* The partition actions of a plan with one new_id.
PartitionsNamed(plan, new_id) ==
    SelectSeq(ActionsOf(plan, "create_partition"), LAMBDA a : a.new_id = new_id)

\* The format actions of a plan with one target.
FormatsOf(plan, id_val) ==
    SelectSeq(ActionsOf(plan, "format"), LAMBDA a : a.id = id_val)

EncryptedLayoutArgs ==
    [ device |-> "/dev/sda", swap |-> "8GiB", type |-> efi, luks |-> "true",
      root_fs |-> "ext4" ]

\* C14: create_classic_single_disk_layout(device="/dev/sda", swap="8GiB",
\* type="efi", luks="true", root_fs="ext4") on a fresh DiskConfigurator completes
\* and leaves a plan of one table action, an efi, a swap and a root partition
\* (the root one of size remaining), one create_luks action on part_root and
\* three format actions, for the efi, the swap and the encrypted root
\* Identifier; DISK_ID_ROOT is then part_luks_root.
C14_EncryptedLayoutPlan ==
    ( /\ last.op = "create_classic_single_disk_layout"
      /\ last.args = EncryptedLayoutArgs
      /\ last.pre = InitConfig ) =>
        LET plan == config.DISK_ACTIONS
        IN  /\ last.err = NoError
            /\ Len(ActionsOf(plan, "create_gpt")) = 1
            /\ Len(ActionsOf(plan, "create_partition")) = 3
            /\ Len(PartitionsNamed(plan, part_ \o efi)) = 1
            /\ Len(PartitionsNamed(plan, part_swap)) = 1
            /\ Len(PartitionsNamed(plan, part_root)) = 1
            /\ PartitionsNamed(plan, part_root)[1].size = "remaining"
            /\ Len(ActionsOf(plan, "create_luks")) = 1
            /\ ActionsOf(plan, "create_luks")[1].id = part_root
            /\ Len(ActionsOf(plan, "format")) = 3
            /\ Len(FormatsOf(plan, part_ \o efi)) = 1
            /\ Len(FormatsOf(plan, part_swap)) = 1
            /\ Len(FormatsOf(plan, part_luks_root)) = 1
            /\ config.DISK_ID_ROOT = part_luks_root

\* C15: create_classic_single_disk_layout fails only when one of the primitives
\* it calls fails; it never rejects on a check of its own after it has appended
\* actions.
C15_LayoutFailsOnlyThroughPrimitives ==
    ( /\ last.op = "create_classic_single_disk_layout"
      /\ last.err # NoError ) =>
        \E i \in DOMAIN trace : trace[i].err # NoError

\* C16: an Identifier is formatted at most once: no plan holds two format
\* actions with the same id, and a call that would format an Identifier the
\* plan already formats is rejected and appends nothing.
C16_FormattedAtMostOnce ==
    /\ \A i, j \in DOMAIN config.DISK_ACTIONS :
           ( /\ i # j
             /\ config.DISK_ACTIONS[i].action = "format"
             /\ config.DISK_ACTIONS[j].action = "format" ) =>
               config.DISK_ACTIONS[i].id # config.DISK_ACTIONS[j].id
    /\ ( /\ last.op = "create_classic_single_disk_layout"
         /\ ActionsOf(last.pre.DISK_ACTIONS, "format") # << >> ) =>
           /\ last.err # NoError
           /\ config.DISK_ACTIONS = last.pre.DISK_ACTIONS

\* C16 witness: a second layout call, on a plan that holds the format actions
\* of an earlier one, was rejected.
C16_Witness ==
    /\ last.op = "create_classic_single_disk_layout"
    /\ Len(ActionsOf(last.pre.DISK_ACTIONS, "format")) >= 2
    /\ last.err = "IdExists"

IdChecksPass(e) ==
    /\ e.args.new_id # << >>
    /\ ";" \notin Range(e.args.new_id)
    /\ e.args.new_id \notin DOMAIN e.pre.DISK_ID_TO_UUID
    /\ e.args.id \in (DOMAIN e.pre.DISK_ID_TO_UUID) \cup { e.args.new_id }

TablesIn(plan) ==
    { plan[i].new_id : i \in { j \in DOMAIN plan : plan[j].action = "create_gpt" } }

\* C24: every value of DISK_ID_PART_TO_GPT_ID is an Identifier created by
\* create_gpt, never one created by create_partition or register_existing.
C24_MembershipValuesAreTables ==
    \A p \in DOMAIN config.DISK_ID_PART_TO_GPT_ID :
        config.DISK_ID_PART_TO_GPT_ID[p] \in TablesIn(config.DISK_ACTIONS)

\* reg is kept by later: every Identifier of reg is in later with the same UUID.
KeptIn(reg, later) ==
    \A id_val \in DOMAIN reg : id_val \in DOMAIN later /\ later[id_val] = reg[id_val]

\* C25: the registry only grows and never rewrites: an Identifier once in
\* DISK_ID_TO_UUID stays there and its UUID never changes.
C25_RegistryOnlyGrows ==
    /\ KeptIn(last.pre.DISK_ID_TO_UUID, config.DISK_ID_TO_UUID)
    /\ \A i \in DOMAIN trace :
           /\ KeptIn(trace[i].pre.DISK_ID_TO_UUID, trace[i].post.DISK_ID_TO_UUID)
           /\ KeptIn(trace[i].post.DISK_ID_TO_UUID, config.DISK_ID_TO_UUID)
           /\ KeptIn(last.pre.DISK_ID_TO_UUID, trace[i].pre.DISK_ID_TO_UUID)

\* C25 witness: a call on a registry of two Identifiers registered a third.
C25_Witness ==
    /\ Cardinality(DOMAIN last.pre.DISK_ID_TO_UUID) = 2
    /\ Cardinality(DOMAIN config.DISK_ID_TO_UUID) = 3
    /\ last.err = NoError

\* The plan C28 describes for the arguments a of a layout call.
PlainLayoutPlan(a) ==
    << [ action |-> "create_gpt", new_id |-> gpt, device |-> a.device ],
       [ action |-> "create_partition", new_id |-> part_ \o a.type, id |-> gpt,
         size |-> "1GiB", type |-> a.type ] >>
    \o ( IF a.swap # "false"
         THEN << [ action |-> "create_partition", new_id |-> part_swap, id |-> gpt,
                   size |-> a.swap, type |-> swap ] >>
         ELSE << >> )
    \o << [ action |-> "create_partition", new_id |-> part_root, id |-> gpt,
            size |-> "remaining", type |-> linux ] >>

PlainLayoutFormats(a) ==
    << part_ \o a.type >> \o ( IF a.swap # "false" THEN << part_swap >> ELSE << >> )
    \o << part_root >>

\* A layout call without encryption on a fresh DiskConfigurator, with type efi
\* or bios and root_fs ext4 or btrfs.
PlainLayoutCall ==
    /\ last.op = "create_classic_single_disk_layout"
    /\ last.pre = InitConfig
    /\ last.args.luks = "false"
    /\ last.args.type \in { efi, bios }
    /\ last.args.root_fs \in { "ext4", "btrfs" }

\* What C28 says of the state after a layout call.
PlainLayoutResult ==
    LET plan == config.DISK_ACTIONS
        n == Len(PlainLayoutPlan(last.args))
        formats == ActionsOf(plan, "format")
    IN  /\ last.err = NoError
        /\ Len(plan) = n + Len(PlainLayoutFormats(last.args))
        /\ SubSeq(plan, 1, n) = PlainLayoutPlan(last.args)
        /\ SubSeq(plan, n + 1, Len(plan)) = formats
        /\ [ i \in DOMAIN formats |-> formats[i].id ] = PlainLayoutFormats(last.args)
        /\ config.DISK_ID_ROOT = part_root
        /\ (config.DISK_ID_EFI = None) # (config.DISK_ID_BIOS = None)
        /\ (config.DISK_ID_SWAP # None) <=> (last.args.swap # "false")

\* C28 as stated: create_classic_single_disk_layout with luks="false", type efi
\* or bios and root_fs ext4 or btrfs on a fresh DiskConfigurator yields the plan
\* create_gpt gpt, create_partition part_<type> of 1GiB, part_swap iff swap is
\* not "false", part_root of size remaining, then one format action per created
\* partition in that order; DISK_ID_ROOT is part_root, exactly one of
\* DISK_ID_EFI and DISK_ID_BIOS is set, DISK_ID_SWAP iff swap is not "false".
C28_PlainLayoutPlanAnySwap == PlainLayoutCall => PlainLayoutResult

\* C28 as amended: the same, for a swap argument that is "false" or a size other
\* than "remaining".
C28_PlainLayoutPlan ==
    ( PlainLayoutCall /\ last.args.swap # "remaining" ) => PlainLayoutResult

\* C28 witness: a bios layout with an 8GiB swap partition and a btrfs root was
\* planned on a fresh DiskConfigurator.
C28_Witness ==
    /\ PlainLayoutCall
    /\ last.args.swap = "8GiB"
    /\ last.args.type = bios
    /\ last.args.root_fs = "btrfs"
    /\ last.err = NoError
    /\ Len(config.DISK_ACTIONS) = 7

-----------------------------------------------------------------------------
(* Properties of the persisted UUID store, stated for StoreSpec.           *)

\* C7: the store is write-once per key: all values load_or_generate_uuid
\* returns for a key, in the same or in a later process, are the same, and the
\* key's file is not written again once a value has been returned.
C7_StoreIsWriteOnce ==
    \A k \in Keys :
        /\ \A i, j \in DOMAIN returned[k] : returned[k][i] = returned[k][j]
        /\ k \notin rewritten
        /\ returned[k] # << >> =>
              /\ k \in DOMAIN store
              /\ store[k] = returned[k][1]

\* C7 witness: a key whose UUID was generated and returned, and returned again
\* by a later call that followed an interrupted one.
C7_Witness ==
    \E k \in Keys :
        /\ Len(returned[k]) >= 2
        /\ returned[k][1] \in UuidTexts
        /\ k \in interrupted

\* C8: after a process was interrupted inside load_or_generate_uuid, the calls
\* for that key return a non-empty, well-formed UUID, always the same one.
C8_InterruptedCallLeavesUsableStore ==
    \A k \in interrupted :
        \A i, j \in DOMAIN returned[k] :
            /\ returned[k][i] \in UuidTexts
            /\ returned[k][i] = returned[k][j]

-----------------------------------------------------------------------------
(* Properties of the resolve table and the resolver, stated for            *)
(* ResolveSpec.                                                            *)

\* The most recent call was resolve_device_by_id on an Identifier with a table
\* entry.
ResolvedEntry ==
    /\ rlast.op = "resolve_device_by_id"
    /\ rlast.id \in DOMAIN rlast.pre

KnownKinds ==
    { << "partuuid" >>, << "ptuuid" >>, << "uuid" >>, << "mdadm" >>, << "luks" >>,
      << "device" >> }

\* The most recent call resolved an entry of the shape kind:value.
ResolvedKind(kind) ==
    /\ ResolvedEntry
    /\ HasColon(rlast.pre[rlast.id])
    /\ BeforeColon(rlast.pre[rlast.id]) = << kind >>

\* C12: registering a resolve entry for an Identifier that already has a
\* descriptor fails with AlreadyResolved and leaves the existing descriptor
\* unchanged.
C12_ReRegisterFailsAlreadyResolved ==
    ( /\ rlast.op = "create_resolve_entry"
      /\ rlast.id \in DOMAIN rlast.pre ) =>
        /\ rlast.err = "AlreadyResolved"
        /\ rlast.id \in DOMAIN DISK_ID_TO_RESOLVABLE
        /\ DISK_ID_TO_RESOLVABLE[rlast.id] = rlast.pre[rlast.id]

\* The /dev/disk/by-id aliases of the machine whose real path is that of path.
AliasesOf(s, path) ==
    { << "/dev/disk/by-id/", s.byId.names[i] >> : i \in
        { j \in DOMAIN s.byId.names :
            Realpath(s, << "/dev/disk/by-id/", s.byId.names[j] >>)
              = Realpath(s, path) } }

\* C17: for an Identifier whose resolve entry is device:P, resolve_device_by_id
\* returns the /dev/disk/by-id alias whose real path is the real path of P when
\* there is one, and P otherwise; repeated calls for an Identifier return the
\* same result.
C17_DeviceEntryGivesPathOrAlias ==
    /\ ResolvedKind("device") =>
          LET P == AfterColon(rlast.pre[rlast.id])
          IN  /\ rlast.err = NoError
              /\ IF AliasesOf(system, P) # {} THEN rlast.dev \in AliasesOf(system, P)
                 ELSE rlast.dev = P
    /\ \A id_val \in ResolveArgs :
          \A i, j \in DOMAIN resolved[id_val] :
              resolved[id_val][i] = resolved[id_val][j]

\* The locator value of a probed kind is found by none of the probes of the
\* machine, whose utilities are installed and run.
MatchesNothing(s, entry) ==
    LET kind == BeforeColon(entry)
        arg == AfterColon(entry)
    IN  /\ s.blkid.installed /\ ~s.blkid.gcFails
        /\ s.lsblk.installed /\ ~s.lsblk.fails
        /\ s.mdadm.installed /\ ~s.mdadm.fails
        /\ \/ /\ kind = << "partuuid" >>
              /\ << "/dev/disk/by-partuuid/" >> \o arg \notin s.paths
              /\ << "PARTUUID", "=" >> \o arg \notin DOMAIN s.blkid.found
           \/ /\ kind = << "uuid" >>
              /\ << "/dev/disk/by-uuid/" >> \o arg \notin s.paths
              /\ << "UUID", "=" >> \o arg \notin DOMAIN s.blkid.found
           \/ /\ kind = << "ptuuid" >>
              /\ PtuuidMatches(s.lsblk.rows, Lower(arg)) = {}
           \/ /\ kind = << "mdadm" >>
              /\ MdadmMatches(s.mdadm.arrays, utils_uuid_to_mduuid(arg)) = {}

\* C18: an entry whose locator value matches nothing in any probe utility's
\* output ends resolve_device_by_id in the fatal not-found error; for an entry
\* of any locator kind the call returns no empty string and raises no
\* unhandled exception.
C18_NotFoundIsFatalNeverEmpty ==
    ( ResolvedEntry /\ HasColon(rlast.pre[rlast.id]) ) =>
        /\ MatchesNothing(system, rlast.pre[rlast.id]) =>
              rlast.err \in { "DeviceNotFound", "LsblkEmpty" }
        /\ rlast.err \notin UnhandledExceptions
        /\ rlast.err = NoError => rlast.dev # << >>

\* C19: resolve_device_by_id on an Identifier without a table entry fails with
\* the fatal unknown-identifier error before any probe utility is executed; an
\* entry without the kind:value shape, or with an unknown kind, is fatal as
\* well, and no device path is returned.
C19_BadLookupIsFatal ==
    rlast.op = "resolve_device_by_id" =>
        /\ rlast.id \notin DOMAIN rlast.pre =>
              /\ rlast.err = "UnknownIdentifier"
              /\ rlast.probes = << >>
              /\ rlast.dev = None
        /\ ( rlast.id \in DOMAIN rlast.pre /\ ~HasColon(rlast.pre[rlast.id]) ) =>
              /\ rlast.err = "InvalidEntryFormat"
              /\ rlast.probes = << >>
              /\ rlast.dev = None
        /\ ( /\ rlast.id \in DOMAIN rlast.pre
             /\ HasColon(rlast.pre[rlast.id])
             /\ BeforeColon(rlast.pre[rlast.id]) \notin KnownKinds ) =>
              /\ rlast.err = "UnknownKind"
              /\ rlast.probes = << >>
              /\ rlast.dev = None

\* C19 witness: after a resolution that ran a probe utility and returned a
\* path, an Identifier without a table entry was rejected.
C19_Witness ==
    /\ rlast.op = "resolve_device_by_id"
    /\ rlast.id \notin DOMAIN rlast.pre
    /\ rlast.err = "UnknownIdentifier"
    /\ lsblkRuns = 1
    /\ \E id_val \in ResolveArgs : resolved[id_val] # << >>

\* C20: device resolution is read-only: whatever the Identifier and the outcome,
\* DISK_ID_TO_RESOLVABLE after resolve_device_by_id is what it was before.
C20_ResolutionIsReadOnly ==
    rlast.op = "resolve_device_by_id" => DISK_ID_TO_RESOLVABLE = rlast.pre

\* C20 witness: a resolution through a probe utility returned a path, with two
\* entries in the table.
C20_Witness ==
    /\ rlast.op = "resolve_device_by_id"
    /\ rlast.err = NoError
    /\ rlast.probes # << >>
    /\ rlast.dev # None
    /\ Cardinality(DOMAIN rlast.pre) = 2

\* C21: over the partition-table-UUID lookups of one process lsblk is run at
\* most once: the first lookup fills CACHED_LSBLK_OUTPUT with the output of
\* that run and every later lookup reuses it.
C21_LsblkRunsAtMostOnce ==
    /\ lsblkRuns <= 1
    /\ ( lsblkRuns = 1 /\ rlast.err = NoError ) =>
          CACHED_LSBLK_OUTPUT = system.lsblk.rows
    /\ ( ResolvedKind("ptuuid") /\ Times(rlast.probes, "lsblk") = 0 ) =>
          /\ lsblkRuns = 1
          /\ CACHED_LSBLK_OUTPUT = system.lsblk.rows

\* C21 witness: a second partition-table-UUID lookup returned a path without
\* running lsblk.
C21_Witness ==
    /\ ResolvedKind("ptuuid")
    /\ rlast.err = NoError
    /\ Times(rlast.probes, "lsblk") = 0
    /\ nresolves >= 2
    /\ lsblkRuns = 1

\* The locator value of the entry the most recent call resolved.
ResolvedArg == AfterColon(rlast.pre[rlast.id])

\* C26: for partuuid and uuid entries resolve_device_by_id takes the
\* /dev/disk/by-partuuid or /dev/disk/by-uuid symlink when it exists and asks
\* blkid only when it does not; for luks entries it takes /dev/mapper/<name> and
\* for device entries the stored path, both without running a probe utility
\* before canonicalization.
C26_DispatchByKind ==
    /\ ResolvedKind("partuuid") =>
          IF << "/dev/disk/by-partuuid/" >> \o ResolvedArg \in system.paths
          THEN /\ rlast.probes = << >>
               /\ rlast.given = << "/dev/disk/by-partuuid/" >> \o ResolvedArg
          ELSE rlast.probes = << "blkid" >>
    /\ ResolvedKind("uuid") =>
          IF << "/dev/disk/by-uuid/" >> \o ResolvedArg \in system.paths
          THEN /\ rlast.probes = << >>
               /\ rlast.given = << "/dev/disk/by-uuid/" >> \o ResolvedArg
          ELSE rlast.probes = << "blkid" >>
    /\ ResolvedKind("luks") =>
          /\ rlast.probes = << >>
          /\ rlast.given = << "/dev/mapper/" >> \o ResolvedArg
    /\ ResolvedKind("device") =>
          /\ rlast.probes = << >>
          /\ rlast.given = ResolvedArg

\* C26 witness: a partuuid entry without a symlink was resolved through blkid,
\* after a luks entry had been resolved.
C26_Witness ==
    /\ ResolvedKind("partuuid")
    /\ << "/dev/disk/by-partuuid/" >> \o ResolvedArg \notin system.paths
    /\ rlast.probes = << "blkid" >>
    /\ rlast.err = NoError
    /\ \E id_val \in TableIds :
          /\ id_val # rlast.id
          /\ id_val \in DOMAIN rlast.pre
          /\ rlast.pre[id_val] = << "luks", ":", "root" >>
          /\ resolved[id_val] = << << "/dev/mapper/", "root" >> >>

\* C27: canonicalize_device returns its argument or a /dev/disk/by-id entry
\* whose real path is the argument's real path, and applying it to its own
\* result gives that result again.
C27_CanonicalizeIsIdempotent ==
    rlast.op = "canonicalize_device" =>
        /\ rlast.err = NoError
        /\ rlast.dev = rlast.given \/ rlast.dev \in AliasesOf(system, rlast.given)
        /\ rlast.again = rlast.dev

-----------------------------------------------------------------------------
(* Properties of the three uuid_to_mduuid functions, stated for MduuidSpec. *)

HexDigits ==
    { "0", "1", "2", "3", "4", "5", "6", "7", "8", "9",
      "a", "b", "c", "d", "e", "f", "A", "B", "C", "D", "E", "F" }

\* v is four groups of eight hexadecimal digits, joined by ':'.
FourGroups(v) ==
    /\ Len(v) = 35
    /\ \A i \in 1..35 : IF i \in { 9, 18, 27 } THEN v[i] = ":" ELSE v[i] \in HexDigits

\* C22: config.uuid_to_mduuid, GentooInstallerUtils.uuid_to_mduuid and
\* utils.uuid_to_mduuid return the same value for every UUID; that value is
\* four groups of eight hexadecimal digits and differs from the UUID.
C22_SameFourGroupTransform ==
    mdOut # NoMdCall =>
        /\ mdOut.config = mdOut.utils
        /\ mdOut.functions = mdOut.utils
        /\ FourGroups(mdOut.config)
        /\ FourGroups(mdOut.functions)
        /\ FourGroups(mdOut.utils)
        /\ mdOut.utils # mdUuid

-----------------------------------------------------------------------------
(* Properties of try_command, stated for TrySpec over the events of the    *)
(* call.                                                                   *)

\* The answers the operator can give, as the prompt names them.
NamedAnswers ==
    [ shell |-> { << >>, << "s" >>, << "s", "h", "e", "l", "l" >> },
      retry |-> { << "r" >>, << "r", "e", "t", "r", "y" >> },
      abort |-> { << "a" >>, << "a", "b", "o", "r", "t" >> },
      continue |-> { << "c" >>, << "c", "o", "n", "t", "i", "n", "u", "e" >> },
      print |-> { << "p" >>, << "p", "r", "i", "n", "t" >> } ]

\* Event i of the call is the answer named kind; "other" is an answer with
\* no name.
AnswerOf(i, kind) ==
    /\ tryLog[i].ev = "answer"
    /\ IF kind = "other"
       THEN \A k \in DOMAIN NamedAnswers : tryLog[i].arg \notin NamedAnswers[k]
       ELSE tryLog[i].arg \in NamedAnswers[kind]

\* What follows event i: the next event, or the position of the process when
\* event i is the last one so far.
FollowedBy(i, evs, pcs) ==
    IF i < Len(tryLog) THEN tryLog[i + 1].ev \in evs ELSE tryPc \in pcs

\* C29: try_command returns only True, and only right after an execution that
\* exited with status 0 or a continue answer; an abort answer is followed by
\* die; a retry answer by a new execution; a print or unrecognised answer by
\* another read at the prompt, with no execution in between.
C29_ReturnsOnlyOnSuccessOrContinue ==
    /\ tryPc = "returned" <=>
           (tryLog # << >> /\ tryLog[Len(tryLog)].ev = "return")
    /\ tryPc = "died" <=>
           (tryLog # << >> /\ tryLog[Len(tryLog)].ev = "die")
    /\ \A i \in DOMAIN tryLog :
         /\ tryLog[i].ev = "return" =>
              /\ tryLog[i].arg = "True"
              /\ i = Len(tryLog)
              /\ i > 1
              /\ \/ tryLog[i - 1].ev = "run" /\ tryLog[i - 1].arg = 0
                 \/ AnswerOf(i - 1, "continue")
         /\ tryLog[i].ev = "run" /\ tryLog[i].arg = 0 =>
              i < Len(tryLog) /\ tryLog[i + 1].ev = "return"
         /\ AnswerOf(i, "continue") =>
              i < Len(tryLog) /\ tryLog[i + 1].ev = "return"
         /\ AnswerOf(i, "abort") =>
              i < Len(tryLog) /\ tryLog[i + 1].ev = "die"
         /\ tryLog[i].ev = "die" => i = Len(tryLog) /\ AnswerOf(i - 1, "abort")
         /\ AnswerOf(i, "retry") => FollowedBy(i, { "run" }, { "run" })
         /\ AnswerOf(i, "print") \/ AnswerOf(i, "other") =>
              FollowedBy(i, { "answer", "raise" }, { "prompt" })

\* A call that returned after a failed execution, a print answer, an
\* unrecognised answer and a retry answer.
C29_Witness ==
    /\ tryPc = "returned"
    /\ \E i, j \in DOMAIN tryLog :
         /\ AnswerOf(i, "print") \/ AnswerOf(i, "other")
         /\ AnswerOf(j, "retry")
         /\ i < j

\* C30: after the interactive shell chosen on a failed command ends, the next
\* thing try_command does is read the next action at the prompt.
C30_PromptAgainAfterShell ==
    \A i \in DOMAIN tryLog :
        tryLog[i].ev = "shell_exit" =>
            FollowedBy(i, { "answer", "raise" }, { "prompt" })

====
